---- MODULE Spec2Model ----
(***************************************************************************)
(* Model of src/apps.rs of elefren: the application descriptor `App`, its  *)
(* builder `AppBuilder`, the two `TryInto<App>` conversions and the        *)
(* `Scopes` enumeration with its Display and Serialize forms.              *)
(*                                                                         *)
(* Rust strings that are only stored and compared are TLA+ strings; the    *)
(* strings produced by Display / Serialize for Scopes are sequences of     *)
(* one-character strings, so that they can be taken apart.                 *)
(* Option<T> is a sequence of length 0 (None) or 1 (Some).                 *)
(***************************************************************************)
EXTENDS Naturals, Sequences, FiniteSets, TLC

VARIABLES
    builders,   \* the caller's AppBuilder bindings: binding -> [st, v]
    calls,      \* ghost: per binding, the argument of the latest setter call per field
    app,        \* the caller's App binding: Option<App>
    err,        \* the Err returned by the most recent conversion: Option<Error>
    fin,        \* ghost: Option<[slot, calls]> of the builder consumed by the latest finalize
    origin,     \* ghost: Option<calls> the setter arguments the App in `app` was made from
    op,         \* the most recent operation: [name, slot]
    expected,   \* a second App binding, holding a clone: Option<App>
    shown,      \* Option<String>: the latest app.scopes().to_string()
    wire        \* Option<serialized App>: the latest serialization of app

vars == <<builders, calls, app, err, fin, origin, op, expected, shown, wire>>

----------------------------------------------------------------------------
(* Bounds and input domains *)

MaxScopeInputs == 3

Slots == {"builder", "copy"}

Names == {"", "foo-test"}

Uris == {"http://example.com"}

Websites == {"https://example.com"}

----------------------------------------------------------------------------
(* Option<T> *)

None == <<>>

Some(x) == <<x>>

is_none(o) == o = None

unwrap(o) == o[1]

----------------------------------------------------------------------------
(* Cow<'a, str> and the conversions in and out of it *)

Cow_from(s) == [cow |-> "Borrowed", s |-> s]

Cow_into_String(c) == c.s

----------------------------------------------------------------------------
(* enum Scopes *)

ScopesDecl == <<"All", "Follow", "Read", "ReadFollow", "ReadWrite", "Write", "WriteFollow">>

Scopes == {ScopesDecl[k] : k \in 1..Len(ScopesDecl)}

ScopeInputs == {ScopesDecl[k] : k \in 1..MaxScopeInputs} \cap Scopes

Scopes_default == "Read"

Scopes_fmt_swapped(self) ==
    CASE self = "All"         -> <<"r","e","a","d","%","2","0","w","r","i","t","e","%","2","0","f","o","l","l","o","w">>
      [] self = "Follow"      -> <<"f","o","l","l","o","w">>
      [] self = "Read"        -> <<"r","e","a","d">>
      [] self = "ReadFollow"  -> <<"r","e","a","d","%","2","0","w","r","i","t","e">>
      [] self = "ReadWrite"   -> <<"r","e","a","d","%","2","0","w","r","i","t","e">>
      [] self = "Write"       -> <<"w","r","i","t","e">>
      [] self = "WriteFollow" -> <<"w","r","i","t","e","%","2","0","f","o","l","l","o","w">>

Scopes_fmt(self) ==
    CASE self = "All"         -> <<"r","e","a","d","%","2","0","w","r","i","t","e","%","2","0","f","o","l","l","o","w">>
      [] self = "Follow"      -> <<"f","o","l","l","o","w">>
      [] self = "Read"        -> <<"r","e","a","d">>
      [] self = "ReadFollow"  -> <<"r","e","a","d","%","2","0","f","o","l","l","o","w">>
      [] self = "ReadWrite"   -> <<"r","e","a","d","%","2","0","w","r","i","t","e">>
      [] self = "Write"       -> <<"w","r","i","t","e">>
      [] self = "WriteFollow" -> <<"w","r","i","t","e","%","2","0","f","o","l","l","o","w">>

Scopes_serialize_display(self) == Scopes_fmt(self)

Scopes_serialize(self) ==
    CASE self = "All"         -> <<"r","e","a","d"," ","w","r","i","t","e"," ","f","o","l","l","o","w">>
      [] self = "Follow"      -> <<"f","o","l","l","o","w">>
      [] self = "Read"        -> <<"r","e","a","d">>
      [] self = "ReadFollow"  -> <<"r","e","a","d"," ","f","o","l","l","o","w">>
      [] self = "ReadWrite"   -> <<"r","e","a","d"," ","w","r","i","t","e">>
      [] self = "Write"       -> <<"w","r","i","t","e">>
      [] self = "WriteFollow" -> <<"w","r","i","t","e"," ","f","o","l","l","o","w">>

----------------------------------------------------------------------------
(* struct App *)

App_default ==
    [client_name |-> "", redirect_uris |-> "", scopes |-> Scopes_default, website |-> None]

App_scopes(self) == self.scopes

App_clone(self) ==
    [client_name   |-> self.client_name,
     redirect_uris |-> self.redirect_uris,
     scopes        |-> self.scopes,
     website       |-> self.website]

App_serialize_null(self) ==
    << <<"client_name", self.client_name>>,
       <<"redirect_uris", self.redirect_uris>>,
       <<"scopes", Scopes_serialize(self.scopes)>>,
       <<"website", IF is_none(self.website) THEN "null" ELSE unwrap(self.website)>> >>

App_serialize(self) ==
    << <<"client_name", self.client_name>>,
       <<"redirect_uris", self.redirect_uris>>,
       <<"scopes", Scopes_serialize(self.scopes)>> >>
    \o (IF is_none(self.website) THEN <<>> ELSE << <<"website", unwrap(self.website)>> >>)

----------------------------------------------------------------------------
(* Result<App> *)

Ok(a) == [tag |-> "Ok", val |-> <<a>>]

Err(e) == [tag |-> "Err", val |-> <<e>>]

MissingField(f) == [kind |-> "MissingField", field |-> f]

----------------------------------------------------------------------------
(* struct AppBuilder *)

AppBuilder_default ==
    [client_name |-> None, redirect_uris |-> None, scopes |-> None, website |-> None]

AppBuilder_new == AppBuilder_default

App_builder_prefilled == [AppBuilder_new EXCEPT !.scopes = Some(Scopes_default)]

App_builder == AppBuilder_new

AppBuilder_clone(self) ==
    [client_name   |-> self.client_name,
     redirect_uris |-> self.redirect_uris,
     scopes        |-> self.scopes,
     website       |-> self.website]

AppBuilder_client_name_first(self, name) ==
    IF is_none(self.client_name)
    THEN [self EXCEPT !.client_name = Some(Cow_from(name))]
    ELSE self

AppBuilder_client_name(self, name) == [self EXCEPT !.client_name = Some(Cow_from(name))]

AppBuilder_redirect_uris(self, uris) == [self EXCEPT !.redirect_uris = Some(Cow_from(uris))]

AppBuilder_scopes(self, scopes) == [self EXCEPT !.scopes = Some(scopes)]

AppBuilder_website(self, website) == [self EXCEPT !.website = Some(Cow_from(website))]

OOB == "urn:ietf:wg:oauth:2.0:oob"

AppBuilder_build_nonempty(self) ==
    IF is_none(self.client_name) \/ Cow_into_String(unwrap(self.client_name)) = ""
    THEN Err(MissingField("client_name"))
    ELSE Ok([client_name   |-> Cow_into_String(unwrap(self.client_name)),
             redirect_uris |-> IF is_none(self.redirect_uris) THEN OOB
                               ELSE Cow_into_String(unwrap(self.redirect_uris)),
             scopes        |-> IF is_none(self.scopes) THEN "Read" ELSE unwrap(self.scopes),
             website       |-> IF is_none(self.website) THEN None
                               ELSE Some(Cow_into_String(unwrap(self.website)))])

AppBuilder_build_derived_defaults(self) ==
    IF is_none(self.client_name)
    THEN Err(MissingField("client_name"))
    ELSE Ok([client_name   |-> Cow_into_String(unwrap(self.client_name)),
             redirect_uris |-> IF is_none(self.redirect_uris) THEN ""
                               ELSE Cow_into_String(unwrap(self.redirect_uris)),
             scopes        |-> IF is_none(self.scopes) THEN "Read" ELSE unwrap(self.scopes),
             website       |-> IF is_none(self.website) THEN None
                               ELSE Some(Cow_into_String(unwrap(self.website)))])

AppBuilder_build(self) ==
    IF is_none(self.client_name)
    THEN Err(MissingField("client_name"))
    ELSE Ok([client_name   |-> Cow_into_String(unwrap(self.client_name)),
             redirect_uris |-> IF is_none(self.redirect_uris) THEN OOB
                               ELSE Cow_into_String(unwrap(self.redirect_uris)),
             scopes        |-> IF is_none(self.scopes) THEN "Read" ELSE unwrap(self.scopes),
             website       |-> IF is_none(self.website) THEN None
                               ELSE Some(Cow_into_String(unwrap(self.website)))])

----------------------------------------------------------------------------
(* impl TryInto<App> for App / for AppBuilder *)

App_try_into_rebuilt(self) == Ok([self EXCEPT !.website = None])

App_try_into(self) == Ok(self)

AppBuilder_try_into(self) ==
    LET r == AppBuilder_build(self)
    IN  IF r.tag = "Err" THEN Err(unwrap(r.val)) ELSE Ok(unwrap(r.val))

----------------------------------------------------------------------------
(* The caller's bindings *)

Unbound == [st |-> "Unbound", v |-> AppBuilder_default]

Moved == [st |-> "Moved", v |-> AppBuilder_default]

Live(b) == [st |-> "Live", v |-> b]

NoCalls == [client_name |-> None, redirect_uris |-> None, scopes |-> None, website |-> None]

Apps ==
    [client_name   : Names,
     redirect_uris : Uris \cup {OOB},
     scopes        : Scopes,
     website       : {None} \cup {Some(w) : w \in Websites}]

Init ==
    /\ builders = [i \in Slots |-> Unbound]
    /\ calls = [i \in Slots |-> NoCalls]
    /\ app = None
    /\ err = None
    /\ fin = None
    /\ origin = None
    /\ op = [name |-> "init", slot |-> "-"]
    /\ expected = None
    /\ shown = None
    /\ wire = None

InitApp ==
    /\ builders = [i \in Slots |-> Unbound]
    /\ calls = [i \in Slots |-> NoCalls]
    /\ app \in {Some(a) : a \in Apps}
    /\ err = None
    /\ fin = None
    /\ origin = None
    /\ op = [name |-> "init", slot |-> "-"]
    /\ expected = None
    /\ shown = None
    /\ wire = None

----------------------------------------------------------------------------
(* Operations on builders *)

NewBuilder(i, ctor) ==
    /\ builders[i].st = "Unbound"
    /\ builders' = [builders EXCEPT ![i] =
                        Live(IF ctor = "App::builder" THEN App_builder ELSE AppBuilder_new)]
    /\ calls' = [calls EXCEPT ![i] = NoCalls]
    /\ op' = [name |-> ctor, slot |-> i]
    /\ UNCHANGED <<app, err, fin, origin, expected, shown, wire>>

SetClientName(i, name) ==
    /\ builders[i].st = "Live"
    /\ builders' = [builders EXCEPT ![i] = Live(AppBuilder_client_name(builders[i].v, name))]
    /\ calls' = [calls EXCEPT ![i].client_name = Some(name)]
    /\ op' = [name |-> "client_name", slot |-> i]
    /\ UNCHANGED <<app, err, fin, origin, expected, shown, wire>>

SetRedirectUris(i, uris) ==
    /\ builders[i].st = "Live"
    /\ builders' = [builders EXCEPT ![i] = Live(AppBuilder_redirect_uris(builders[i].v, uris))]
    /\ calls' = [calls EXCEPT ![i].redirect_uris = Some(uris)]
    /\ op' = [name |-> "redirect_uris", slot |-> i]
    /\ UNCHANGED <<app, err, fin, origin, expected, shown, wire>>

SetScopes(i, scopes) ==
    /\ builders[i].st = "Live"
    /\ builders' = [builders EXCEPT ![i] = Live(AppBuilder_scopes(builders[i].v, scopes))]
    /\ calls' = [calls EXCEPT ![i].scopes = Some(scopes)]
    /\ op' = [name |-> "scopes", slot |-> i]
    /\ UNCHANGED <<app, err, fin, origin, expected, shown, wire>>

SetWebsite(i, website) ==
    /\ builders[i].st = "Live"
    /\ builders' = [builders EXCEPT ![i] = Live(AppBuilder_website(builders[i].v, website))]
    /\ calls' = [calls EXCEPT ![i].website = Some(website)]
    /\ op' = [name |-> "website", slot |-> i]
    /\ UNCHANGED <<app, err, fin, origin, expected, shown, wire>>

CloneBuilder(i, j) ==
    /\ i /= j
    /\ builders[i].st = "Live"
    /\ builders[j].st = "Unbound"
    /\ builders' = [builders EXCEPT ![j] = Live(AppBuilder_clone(builders[i].v))]
    /\ calls' = [calls EXCEPT ![j] = calls[i]]
    /\ op' = [name |-> "AppBuilder::clone", slot |-> j]
    /\ UNCHANGED <<app, err, fin, origin, expected, shown, wire>>

\* a finalize taking the builder by reference: a failure leaves the binding live
Finalize_by_ref(i, r, name) ==
    /\ builders' = [builders EXCEPT ![i] = IF r.tag = "Ok" THEN Moved ELSE builders[i]]
    /\ calls' = [calls EXCEPT ![i] = IF r.tag = "Ok" THEN NoCalls ELSE calls[i]]
    /\ fin' = Some([slot |-> i, calls |-> calls[i]])
    /\ op' = [name |-> name, slot |-> i]
    /\ IF r.tag = "Ok"
       THEN /\ app' = Some(unwrap(r.val))
            /\ origin' = Some(calls[i])
            /\ err' = None
       ELSE /\ err' = Some(unwrap(r.val))
            /\ UNCHANGED <<app, origin>>
    /\ UNCHANGED <<expected, shown, wire>>

\* `build(self)` and `try_into(self)` take the builder by value: whatever the
\* outcome, the binding is moved out of and cannot be used again.
Finalize(i, r, name) ==
    /\ builders' = [builders EXCEPT ![i] = Moved]
    /\ calls' = [calls EXCEPT ![i] = NoCalls]
    /\ fin' = Some([slot |-> i, calls |-> calls[i]])
    /\ op' = [name |-> name, slot |-> i]
    /\ IF r.tag = "Ok"
       THEN /\ app' = Some(unwrap(r.val))
            /\ origin' = Some(calls[i])
            /\ err' = None
       ELSE /\ err' = Some(unwrap(r.val))
            /\ UNCHANGED <<app, origin>>
    /\ UNCHANGED <<expected, shown, wire>>

Build(i) ==
    /\ builders[i].st = "Live"
    /\ Finalize(i, AppBuilder_build(builders[i].v), "build")

BuilderTryInto(i) ==
    /\ builders[i].st = "Live"
    /\ Finalize(i, AppBuilder_try_into(builders[i].v), "AppBuilder::try_into")

----------------------------------------------------------------------------
(* Operations on descriptors *)

AppDefault ==
    /\ app' = Some(App_default)
    /\ origin' = Some(NoCalls)
    /\ op' = [name |-> "App::default", slot |-> "-"]
    /\ UNCHANGED <<builders, calls, err, fin, expected, shown, wire>>

AppTryInto ==
    /\ app /= None
    /\ LET r == App_try_into(unwrap(app))
       IN  IF r.tag = "Ok"
           THEN app' = Some(unwrap(r.val)) /\ err' = None
           ELSE app' = None /\ err' = Some(unwrap(r.val))
    /\ op' = [name |-> "App::try_into", slot |-> "-"]
    /\ UNCHANGED <<builders, calls, fin, origin, expected, shown, wire>>

AppClone ==
    /\ app /= None
    /\ expected' = Some(App_clone(unwrap(app)))
    /\ op' = [name |-> "App::clone", slot |-> "-"]
    /\ UNCHANGED <<builders, calls, app, err, fin, origin, shown, wire>>

AppToString ==
    /\ app /= None
    /\ shown' = Some(Scopes_fmt(App_scopes(unwrap(app))))
    /\ op' = [name |-> "to_string", slot |-> "-"]
    /\ UNCHANGED <<builders, calls, app, err, fin, origin, expected, wire>>

AppSerialize ==
    /\ app /= None
    /\ wire' = Some(App_serialize(unwrap(app)))
    /\ op' = [name |-> "serialize", slot |-> "-"]
    /\ UNCHANGED <<builders, calls, app, err, fin, origin, expected, shown>>

----------------------------------------------------------------------------
(* Specifications *)

Next ==
    \/ \E i \in Slots, ctor \in {"App::builder", "AppBuilder::new"} : NewBuilder(i, ctor)
    \/ \E i \in Slots, name \in Names : SetClientName(i, name)
    \/ \E i \in Slots, uris \in Uris : SetRedirectUris(i, uris)
    \/ \E i \in Slots, scopes \in ScopeInputs : SetScopes(i, scopes)
    \/ \E i \in Slots, website \in Websites : SetWebsite(i, website)
    \/ \E i \in Slots, j \in Slots : CloneBuilder(i, j)
    \/ \E i \in Slots : Build(i)
    \/ \E i \in Slots : BuilderTryInto(i)
    \/ AppDefault
    \/ AppTryInto

Spec == Init /\ [][Next]_vars

NextApp ==
    \/ AppClone
    \/ AppTryInto
    \/ AppToString
    \/ AppSerialize

SpecApp == InitApp /\ [][NextApp]_vars

----------------------------------------------------------------------------
(* Shorthands used by the properties *)

IsFinalize == op.name \in {"build", "AppBuilder::try_into"}

\* the setter arguments of the builder consumed by the latest finalize
Staged == unwrap(fin).calls

\* C1: finalize fails, with MissingField("client_name"), if and only if
\* client_name was never set on the builder, whatever the other three fields
\* hold; it succeeds whenever client_name was set, the empty string included.
C1_MissingFieldIffNoClientName ==
    IsFinalize =>
        /\ (err /= None) <=> is_none(Staged.client_name)
        /\ err /= None => unwrap(err) = [kind |-> "MissingField", field |-> "client_name"]
        /\ Staged.client_name = Some("") => (err = None /\ app /= None)

C1_Witness ==
    /\ IsFinalize
    /\ err /= None
    /\ Staged.client_name = None
    /\ Staged.redirect_uris /= None
    /\ Staged.scopes /= None
    /\ Staged.website /= None

\* C2: finalizing a builder with client_name set and redirect_uris and scopes
\* never set yields redirect_uris = "urn:ietf:wg:oauth:2.0:oob" and
\* scopes = Read, which is also Scopes::default().
C2_DefaultSubstitution ==
    (/\ IsFinalize
     /\ Staged.client_name /= None
     /\ Staged.redirect_uris = None
     /\ Staged.scopes = None)
    => /\ err = None
       /\ unwrap(app).redirect_uris = "urn:ietf:wg:oauth:2.0:oob"
       /\ unwrap(app).scopes = "Read"
       /\ Scopes_default = "Read"

C2_Witness ==
    /\ op.name = "build"
    /\ Staged.client_name = Some("foo-test")
    /\ Staged.redirect_uris = None
    /\ Staged.scopes = None
    /\ unwrap(app).scopes = "Read"

C6_FreshBuilderEmpty ==
    /\ \A i \in Slots :
           (op.name \in {"App::builder", "AppBuilder::new"} /\ op.slot = i) =>
               /\ builders[i].st = "Live"
               /\ is_none(builders[i].v.client_name)
               /\ is_none(builders[i].v.redirect_uris)
               /\ is_none(builders[i].v.scopes)
               /\ is_none(builders[i].v.website)
    /\ \A i \in Slots, j \in Slots :
           (/\ builders[i].st = "Live" /\ calls[i] = NoCalls
            /\ builders[j].st = "Live" /\ calls[j] = NoCalls)
           => builders[i].v = builders[j].v

C6_Witness ==
    /\ op = [name |-> "App::builder", slot |-> "copy"]
    /\ builders["builder"].st = "Live"
    /\ calls["builder"] = NoCalls
    /\ builders["copy"].v = builders["builder"].v

\* C9 (as claimed): a finalize that fails with MissingField leaves the builder
\* usable with its staged redirect_uris, scopes and website, so that
\* client_name can be set on it and it can be finalized again.
C9_RejectedBuilderRetainsStaged ==
    (IsFinalize /\ err /= None) =>
        LET b == builders[unwrap(fin).slot]
        IN  /\ b.st = "Live"
            /\ is_none(b.v.redirect_uris) <=> is_none(Staged.redirect_uris)
            /\ b.v.scopes = Staged.scopes
            /\ is_none(b.v.website) <=> is_none(Staged.website)

\* C9 (amended): a finalize that fails with MissingField consumes the builder
\* and changes no other builder and no descriptor; a builder that holds the
\* redirect_uris, scopes and website staged on the rejected one (a clone taken
\* before the failed finalize, with client_name set since) finalizes
\* successfully with a descriptor carrying those staged values.
C9_FailedFinalizeConsumesBuilder ==
    [][ /\ (IsFinalize' /\ err' /= None) =>
               /\ builders'[op'.slot].st = "Moved"
               /\ \A j \in Slots \ {op'.slot} : builders'[j] = builders[j]
               /\ app' = app
        /\ (/\ IsFinalize' /\ err /= None
            /\ calls[op'.slot].client_name /= None
            /\ calls[op'.slot].redirect_uris = Staged.redirect_uris
            /\ calls[op'.slot].scopes = Staged.scopes
            /\ calls[op'.slot].website = Staged.website) =>
               /\ err' = None
               /\ unwrap(app').redirect_uris =
                      (IF is_none(Staged.redirect_uris) THEN "urn:ietf:wg:oauth:2.0:oob"
                       ELSE unwrap(Staged.redirect_uris))
               /\ unwrap(app').scopes =
                      (IF is_none(Staged.scopes) THEN "Read" ELSE unwrap(Staged.scopes))
               /\ unwrap(app').website = Staged.website
      ]_vars

C9_Witness ==
    /\ IsFinalize
    /\ err = Some(MissingField("client_name"))
    /\ builders[unwrap(fin).slot].st = "Moved"
    /\ Staged.website /= None
    /\ \E j \in Slots :
           /\ builders[j].st = "Live"
           /\ calls[j].client_name /= None
           /\ calls[j].redirect_uris = Staged.redirect_uris
           /\ calls[j].scopes = Staged.scopes
           /\ calls[j].website = Staged.website

\* C10: every descriptor that exists holds a caller-supplied client_name, a
\* redirect_uris that is caller-supplied or the out-of-band sentinel, and a
\* scopes that is caller-supplied or Read; and no operation changes the
\* fields of a descriptor once it is constructed.
DescriptorConcrete ==
    app /= None =>
        LET a == unwrap(app)
            o == unwrap(origin)
        IN  /\ o.client_name /= None /\ a.client_name = unwrap(o.client_name)
            /\ \/ a.redirect_uris = "urn:ietf:wg:oauth:2.0:oob"
               \/ o.redirect_uris /= None /\ a.redirect_uris = unwrap(o.redirect_uris)
            /\ \/ a.scopes = "Read"
               \/ o.scopes /= None /\ a.scopes = unwrap(o.scopes)

C10_DescriptorsConcreteAndImmutable ==
    [][ /\ DescriptorConcrete'
        /\ (app /= None /\ op'.name \notin {"build", "AppBuilder::try_into", "App::default"})
               => app' = app
      ]_vars

----------------------------------------------------------------------------
(* Properties of the descriptor and of Scopes, checked under SpecApp *)

\* C4: App::try_into never fails and returns a descriptor equal to its input
\* in client_name, redirect_uris, scopes and website.
C4_IdentityPassthrough ==
    [][ op'.name = "App::try_into" =>
            /\ err' = None
            /\ app' /= None
            /\ unwrap(app').client_name = unwrap(app).client_name
            /\ unwrap(app').redirect_uris = unwrap(app).redirect_uris
            /\ unwrap(app').scopes = unwrap(app).scopes
            /\ unwrap(app').website = unwrap(app).website
      ]_vars

C4_Witness ==
    /\ op.name = "App::try_into"
    /\ err = None
    /\ app /= None
    /\ unwrap(app).website /= None
    /\ expected = app

\* the table of test_scopes_display
expecteds ==
    [s \in Scopes |->
        CASE s = "All"         -> <<"r","e","a","d","%","2","0","w","r","i","t","e","%","2","0","f","o","l","l","o","w">>
          [] s = "Follow"      -> <<"f","o","l","l","o","w">>
          [] s = "Read"        -> <<"r","e","a","d">>
          [] s = "ReadFollow"  -> <<"r","e","a","d","%","2","0","f","o","l","l","o","w">>
          [] s = "ReadWrite"   -> <<"r","e","a","d","%","2","0","w","r","i","t","e">>
          [] s = "Write"       -> <<"w","r","i","t","e">>
          [] s = "WriteFollow" -> <<"w","r","i","t","e","%","2","0","f","o","l","l","o","w">>]

\* C5: Display for Scopes returns, for each of the seven variants, exactly the
\* string of the encoding table, and no two variants share an encoding.
C5_DisplayTable ==
    /\ shown /= None => unwrap(shown) = expecteds[unwrap(app).scopes]
    /\ Cardinality(Scopes) = 7
    /\ \A s \in Scopes, t \in Scopes : Scopes_fmt(s) = Scopes_fmt(t) => s = t

C5_Witness ==
    /\ op.name = "to_string"
    /\ unwrap(app).scopes = "ReadFollow"
    /\ unwrap(shown) = <<"r","e","a","d","%","2","0","f","o","l","l","o","w">>

Keys(w) == {w[k][1] : k \in 1..Len(w)}

\* C7: the serialized descriptor has exactly the keys client_name,
\* redirect_uris and scopes when website is absent, and these plus website
\* when it is present: an absent website is not emitted at all.
C7_WebsiteOmittedWhenAbsent ==
    wire /= None =>
        LET w == unwrap(wire)
            a == unwrap(app)
        IN  /\ Keys(w) = IF is_none(a.website)
                         THEN {"client_name", "redirect_uris", "scopes"}
                         ELSE {"client_name", "redirect_uris", "scopes", "website"}
            /\ Cardinality(Keys(w)) = Len(w)
            /\ \A k \in 1..Len(w) :
                   w[k][1] = "website" => (~is_none(a.website) /\ w[k][2] = unwrap(a.website))

C7_Witness ==
    /\ op.name = "serialize"
    /\ is_none(unwrap(app).website)
    /\ Len(unwrap(wire)) = 3

\* the permission axes of each variant, in the order read, write, follow
Axes(s) ==
    CASE s = "All"         -> <<"read", "write", "follow">>
      [] s = "Follow"      -> <<"follow">>
      [] s = "Read"        -> <<"read">>
      [] s = "ReadFollow"  -> <<"read", "follow">>
      [] s = "ReadWrite"   -> <<"read", "write">>
      [] s = "Write"       -> <<"write">>
      [] s = "WriteFollow" -> <<"write", "follow">>

Word(x) ==
    CASE x = "read"   -> <<"r","e","a","d">>
      [] x = "write"  -> <<"w","r","i","t","e">>
      [] x = "follow" -> <<"f","o","l","l","o","w">>

RECURSIVE Join(_, _)
Join(ws, sep) ==
    IF Len(ws) = 1 THEN Word(Head(ws)) ELSE Word(Head(ws)) \o sep \o Join(Tail(ws), sep)

\* str::replace("%20", " ")
RECURSIVE ReplacePct20(_)
ReplacePct20(s) ==
    IF s = <<>> THEN <<>>
    ELSE IF Len(s) >= 3 /\ SubSeq(s, 1, 3) = <<"%", "2", "0">>
         THEN <<" ">> \o ReplacePct20(SubSeq(s, 4, Len(s)))
         ELSE <<Head(s)>> \o ReplacePct20(Tail(s))

WireScopes == unwrap(wire)[3][2]

\* C8: the serialized form of a Scopes value is its words joined by single
\* spaces; it is the Display form with every "%20" replaced by a space, equal
\* to the Display form for Read, Write and Follow and different from it for
\* the four other variants.
C8_SerializeIsSpaceJoined ==
    (wire /= None /\ shown /= None) =>
        LET s == unwrap(app).scopes
        IN  /\ unwrap(wire)[3][1] = "scopes"
            /\ WireScopes = Join(Axes(s), <<" ">>)
            /\ WireScopes = ReplacePct20(unwrap(shown))
            /\ (WireScopes = unwrap(shown)) <=> (s \in {"Read", "Write", "Follow"})

C8_Witness ==
    /\ wire /= None
    /\ shown /= None
    /\ unwrap(app).scopes = "All"
    /\ WireScopes /= unwrap(shown)
    /\ Len(WireScopes) = 17

====
